---------------------------- MODULE Spec2Model ----------------------------
(***************************************************************************)
(* HTTP Basic authentication middleware (package httpauth).                *)
(*                                                                         *)
(* Go strings are byte strings: a string is modelled as a sequence of byte *)
(* values (0..255), so that strings.Split, base64 decoding and the         *)
(* comparison with "Basic" are computed byte by byte as the code does.     *)
(***************************************************************************)
EXTENDS Integers, Sequences, FiniteSets, TLC

(***************************************************************************)
(* Bounds of the model.                                                    *)
(***************************************************************************)
\* longest generated credentials token (the text after the scheme prefix)
MaxTokLen == 4
\* number of goroutines that may run ServeHTTP concurrently
NProcs == 2

(***************************************************************************)
(* Byte values and string literals of the program.                         *)
(***************************************************************************)
\* " ", the separator of strings.Split(a, " ")
SP == 32
\* ":", the separator of strings.Split(string(creds), ":")
COLON == 58
\* "=", the padding character of base64.StdEncoding
PadChar == 61
\* "\n" and "\r", which base64.StdEncoding's decoder skips
LF == 10
CR == 13
\* "\t"
TAB == 9
\* http.StatusUnauthorized
StatusUnauthorized == 401
\* http.StatusOK, the Code of a fresh httptest.ResponseRecorder
StatusOK == 200

\* "Basic"
BasicStr == <<66, 97, 115, 105, 99>>
\* "basic"
LowerBasicStr == <<98, 97, 115, 105, 99>>
\* "Digest"
DigestStr == <<68, 105, 103, 101, 115, 116>>
\* "test-realm"
TestRealm == <<116, 101, 115, 116, 45, 114, 101, 97, 108, 109>>
\* a realm holding a double quote: a"b
QuoteRealm == <<97, 34, 98>>
\* "test-good", the body the test's downstream handler writes
TestGood == <<116, 101, 115, 116, 45, 103, 111, 111, 100>>
\* "test" and "nothing/123", the credentials of the test table
TestUser == <<116, 101, 115, 116>>
TestPass == <<110, 111, 116, 104, 105, 110, 103, 47, 49, 50, 51>>

(***************************************************************************)
(* The headers of the test table (httpauth_test.go).                       *)
(***************************************************************************)
\* ""
HdrNone == <<>>
\* "Basic askd asdf"
HdrThreeParts == <<66, 97, 115, 105, 99, 32, 97, 115, 107, 100, 32, 97, 115, 100, 102>>
\* "Digest askd="
HdrDigest == <<68, 105, 103, 101, 115, 116, 32, 97, 115, 107, 100, 61>>
\* "Basic #%@"
HdrBadBase64 == <<66, 97, 115, 105, 99, 32, 35, 37, 64>>
\* "Basic dGVzdDpub3RoaW5nLzEyMzphYnM="   (test:nothing/123:abs)
HdrThreeFields == <<66, 97, 115, 105, 99, 32, 100, 71, 86, 122, 100, 68, 112, 117, 98,
                    51, 82, 111, 97, 87, 53, 110, 76, 122, 69, 121, 77, 122, 112, 104,
                    89, 110, 77, 61>>
\* "Basic dGVzdDpub3RoaW5nLzEyMw=="       (test:nothing/123)
HdrNormal == <<66, 97, 115, 105, 99, 32, 100, 71, 86, 122, 100, 68, 112, 117, 98,
               51, 82, 111, 97, 87, 53, 110, 76, 122, 69, 121, 77, 119, 61, 61>>

TestHeaders == {HdrNone, HdrThreeParts, HdrDigest, HdrBadBase64, HdrThreeFields, HdrNormal}

(***************************************************************************)
(* strings.Split(s, sep) for a one-byte separator: the substrings between  *)
(* the separators, Count(sep) + 1 of them (one, the empty string, for an   *)
(* empty s).                                                               *)
(***************************************************************************)
RECURSIVE Split(_, _)
Split(s, sep) ==
    IF \A i \in 1..Len(s) : s[i] # sep
    THEN <<s>>
    ELSE LET i == CHOOSE k \in 1..Len(s) :
                      s[k] = sep /\ \A j \in 1..(k - 1) : s[j] # sep
         IN  <<SubSeq(s, 1, i - 1)>> \o Split(SubSeq(s, i + 1, Len(s)), sep)

(***************************************************************************)
(* base64.StdEncoding.DecodeString.                                        *)
(***************************************************************************)
\* decodeMap of the standard alphabet: the 6-bit value of a byte, 255 for a
\* byte outside "A-Za-z0-9+/"
decodeMap(c) ==
    IF c >= 65 /\ c <= 90 THEN c - 65
    ELSE IF c >= 97 /\ c <= 122 THEN c - 71
    ELSE IF c >= 48 /\ c <= 57 THEN c + 4
    ELSE IF c = 43 THEN 62
    ELSE IF c = 47 THEN 63
    ELSE 255

\* the decoder skips "\r" and "\n" wherever they stand
RECURSIVE removeNewlines(_)
removeNewlines(s) ==
    IF s = <<>> THEN <<>>
    ELSE IF s[1] = LF \/ s[1] = CR THEN removeNewlines(Tail(s))
    ELSE <<s[1]>> \o removeNewlines(Tail(s))

\* the three bytes of a quantum of four 6-bit values
quantumBytes(v0, v1, v2, v3) ==
    LET val == v0 * 262144 + v1 * 4096 + v2 * 64 + v3
    IN  <<val \div 65536, (val \div 256) % 256, val % 256>>

\* decodeQuantum, repeated to the end of the input: a quantum is four
\* alphabet bytes, or two or three followed by padding to four, and padding
\* ends the input. The encoding is padded and not strict: a short last
\* quantum is an error, the unused bits of a padded quantum are not looked at.
RECURSIVE decodeQuanta(_)
decodeQuanta(t) ==
    LET bad == [err |-> TRUE, bytes |-> <<>>]
    IN  IF Len(t) = 0 THEN [err |-> FALSE, bytes |-> <<>>]
        ELSE IF Len(t) < 4 THEN bad
        ELSE LET v0 == decodeMap(t[1])
                 v1 == decodeMap(t[2])
                 v2 == decodeMap(t[3])
                 v3 == decodeMap(t[4])
                 rest == SubSeq(t, 5, Len(t))
             IN  IF v0 = 255 \/ v1 = 255 THEN bad
                 ELSE IF v2 = 255
                 THEN IF t[3] = PadChar /\ t[4] = PadChar /\ rest = <<>>
                      THEN [err |-> FALSE,
                            bytes |-> SubSeq(quantumBytes(v0, v1, 0, 0), 1, 1)]
                      ELSE bad
                 ELSE IF v3 = 255
                 THEN IF t[4] = PadChar /\ rest = <<>>
                      THEN [err |-> FALSE,
                            bytes |-> SubSeq(quantumBytes(v0, v1, v2, 0), 1, 2)]
                      ELSE bad
                 ELSE LET more == decodeQuanta(rest)
                      IN  IF more.err THEN bad
                          ELSE [err |-> FALSE,
                                bytes |-> quantumBytes(v0, v1, v2, v3) \o more.bytes]

DecodeString(s) == decodeQuanta(removeNewlines(s))

(***************************************************************************)
(* State.                                                                  *)
(***************************************************************************)
VARIABLES
    h,      \* the *handler Basic returned: method, realm, success, auth
    fr,     \* per goroutine: the request it serves and its ServeHTTP frame
    user,   \* the test predicate's captured variable user
    pass    \* the test predicate's captured variable pass

vars == <<h, fr, user, pass>>

Procs == 1..NProcs

\* the goroutine of the test loop
Main == CHOOSE p \in Procs : \A q \in Procs : p <= q


(***************************************************************************)
(* Basic: the handler it returns.  The downstream handler and the          *)
(* predicate are function values, named here by the identifier passed.     *)
(***************************************************************************)
Basic(realm, onSuccess, authFunc) ==
    [method |-> BasicStr, realm |-> realm, success |-> onSuccess, auth |-> authFunc]

(***************************************************************************)
(* httptest.ResponseRecorder, the http.ResponseWriter of the test.         *)
(***************************************************************************)
NewRecorder ==
    [Code |-> StatusOK, HeaderMap |-> <<>>, Body |-> <<>>, wroteHeader |-> FALSE]

\* w.Header().Add(key, value)
HeaderAdd(w, key, value) ==
    [w EXCEPT !.HeaderMap = Append(@, <<key, value>>)]

\* w.WriteHeader(code): the first call sets the status
WriteHeader(w, code) ==
    IF w.wroteHeader THEN w
    ELSE [w EXCEPT !.Code = code, !.wroteHeader = TRUE]

\* w.Write(b): writes the header with 200 if none was written yet
Write(w, b) ==
    LET w1 == WriteHeader(w, StatusOK)
    IN  [w1 EXCEPT !.Body = @ \o b]

\* w.HeaderMap.Get(key): the first value added under key, "" if none
HeaderGet(w, key) ==
    IF \E i \in 1..Len(w.HeaderMap) : w.HeaderMap[i][1] = key
    THEN LET i == CHOOSE k \in 1..Len(w.HeaderMap) :
                      /\ w.HeaderMap[k][1] = key
                      /\ \A j \in 1..(k - 1) : w.HeaderMap[j][1] # key
         IN  w.HeaderMap[i][2]
    ELSE <<>>

(***************************************************************************)
(* The frame of one ServeHTTP invocation, with the request it serves.      *)
(*   pc            where the invocation stands                             *)
(*   a             r.Header.Get("Authorization") ("" when absent)          *)
(*   fail          the test's flag: the predicate returns !fail            *)
(*   parts         the credentials split on ":"                            *)
(*   line          the source line of the h.fail(w) call taken, 0 if none  *)
(*   w             the response recorder                                   *)
(*   authCalls     the argument pairs h.auth was called with               *)
(*   successCalls  the requests h.success.ServeHTTP was called with        *)
(*   prev          what the identical request sent just before this one    *)
(*                 got: << >>, or one record [fail, w, forwarded]          *)
(***************************************************************************)
IdleFrame ==
    [pc |-> "idle", a |-> <<>>, fail |-> FALSE, parts |-> <<>>, line |-> 0,
     w |-> NewRecorder, authCalls |-> <<>>, successCalls |-> <<>>, prev |-> <<>>]

NewFrame(a, f, prev) ==
    [IdleFrame EXCEPT !.pc = "ready", !.a = a, !.fail = f, !.prev = prev]

(***************************************************************************)
(* handler.ServeHTTP, lines 43-69: everything up to the call of h.auth.    *)
(***************************************************************************)
\* mutant: extra parts of the header are let through
HeaderPartsAtLeast(parts) == Len(parts) >= 2

\* len(parts) != 2 on the header's parts fails
HeaderPartsOK(parts) == Len(parts) = 2

\* "A".."Z" to lower case
ToLower(s) == [i \in 1..Len(s) |-> IF s[i] >= 65 /\ s[i] <= 90 THEN s[i] + 32 ELSE s[i]]

\* mutant: the scheme compared without regard to case
MethodEqualFold(hd, parts) == ToLower(parts[1]) = ToLower(hd.method)

\* mutant: the scheme not compared at all
MethodAny(hd, parts) == TRUE

\* parts[0] != h.method fails
MethodOK(hd, parts) == parts[1] = hd.method

\* mutant: a password holding ":" is let through
CredPartsAtLeast(parts) == Len(parts) >= 2

\* len(parts) != 2 on the credentials' parts fails
CredPartsOK(parts) == Len(parts) = 2

\* the frame at a return after h.fail(w) called on source line n
FailAt(f, n) == [f EXCEPT !.pc = "fail", !.line = n]

ParseStep(hd, f) ==
    LET a == f.a
    IN  IF a = <<>> THEN FailAt(f, 45)
        ELSE LET parts == Split(a, SP)
             IN  IF ~HeaderPartsOK(parts) THEN FailAt(f, 50)
                 ELSE IF ~MethodOK(hd, parts) THEN FailAt(f, 54)
                 ELSE LET dec == DecodeString(parts[2])
                      IN  IF dec.err THEN FailAt(f, 62)
                          ELSE LET cparts == Split(dec.bytes, COLON)
                               IN  IF ~CredPartsOK(cparts) THEN FailAt(f, 67)
                                   ELSE [f EXCEPT !.pc = "auth", !.parts = cparts]

(***************************************************************************)
(* handler.fail: the challenge.                                            *)
(***************************************************************************)
\* s with a backslash put before every double quote
RECURSIVE EscapeQuotes(_)
EscapeQuotes(s) ==
    IF s = <<>> THEN <<>>
    ELSE (IF s[1] = 34 THEN <<92, 34>> ELSE <<s[1]>>) \o EscapeQuotes(Tail(s))

\* mutant: the realm formatted with its quotes escaped
ChallengeEscaped(hd) ==
    hd.method \o <<32, 114, 101, 97, 108, 109, 61, 34>> \o EscapeQuotes(hd.realm) \o <<34>>

\* fmt.Sprintf(`%s realm="%s"`, h.method, h.realm)
Challenge(hd) ==
    hd.method \o <<32, 114, 101, 97, 108, 109, 61, 34>> \o hd.realm \o <<34>>

\* mutant: the challenge tells which check failed
failVerbose(hd, f) ==
    LET w1 == HeaderAdd(f.w, "WWW-Authenticate", Challenge(hd))
        w2 == WriteHeader(w1, StatusUnauthorized)
    IN  [f EXCEPT !.w = Write(w2, <<f.line>>), !.pc = "done"]

fail(hd, f) ==
    LET w1 == HeaderAdd(f.w, "WWW-Authenticate", Challenge(hd))
        w2 == WriteHeader(w1, StatusUnauthorized)
    IN  [f EXCEPT !.w = w2, !.pc = "done"]

(***************************************************************************)
(* Line 70: h.auth(parts[0], parts[1]).  The predicate is the test's: it   *)
(* stores its arguments in user and pass and returns !fail.  s is the      *)
(* frame with the predicate's captured variables: [f, user, pass].         *)
(***************************************************************************)
\* mutant: the user name passed for the password too
AuthArgsUserTwice(parts) == <<parts[1], parts[1]>>

AuthArgs(parts) == <<parts[1], parts[2]>>

\* mutant: no return after h.fail(w) on line 71
AuthStepNoReturn(hd, s) ==
    LET args == AuthArgs(s.f.parts)
        f1 == [s.f EXCEPT !.authCalls = Append(@, args)]
        ok == ~s.f.fail
    IN  [f |-> IF ok THEN [f1 EXCEPT !.pc = "success"]
               ELSE [fail(hd, FailAt(f1, 71)) EXCEPT !.pc = "success"],
         user |-> args[1],
         pass |-> args[2]]

\* mutant: credentials that were accepted for this request before are
\* accepted again without asking the predicate
AuthStepCached(hd, s) ==
    LET args == AuthArgs(s.f.parts)
        cached == s.f.prev # <<>> /\ s.f.prev[1].forwarded
        f1 == IF cached THEN s.f ELSE [s.f EXCEPT !.authCalls = Append(@, args)]
        ok == cached \/ ~s.f.fail
    IN  [f |-> IF ok THEN [f1 EXCEPT !.pc = "success"] ELSE FailAt(f1, 71),
         user |-> IF cached THEN s.user ELSE args[1],
         pass |-> IF cached THEN s.pass ELSE args[2]]

AuthStep(hd, s) ==
    LET args == AuthArgs(s.f.parts)
        f1 == [s.f EXCEPT !.authCalls = Append(@, args)]
        ok == ~s.f.fail
    IN  [f |-> IF ok THEN [f1 EXCEPT !.pc = "success"] ELSE FailAt(f1, 71),
         user |-> args[1],
         pass |-> args[2]]

(***************************************************************************)
(* Line 76: h.success.ServeHTTP(w, r).  The downstream handler is the      *)
(* test's: it writes "test-good".                                          *)
(***************************************************************************)
SuccessStep(hd, f) ==
    [f EXCEPT !.w = Write(@, TestGood),
              !.successCalls = Append(@, f.a),
              !.pc = "done"]

(***************************************************************************)
(* One step of ServeHTTP, and ServeHTTP run from the call to its return.   *)
(***************************************************************************)
Step(hd, s) ==
    CASE s.f.pc = "ready"   -> [s EXCEPT !.f = ParseStep(hd, s.f)]
      [] s.f.pc = "auth"    -> AuthStep(hd, s)
      [] s.f.pc = "fail"    -> [s EXCEPT !.f = fail(hd, s.f)]
      [] s.f.pc = "success" -> [s EXCEPT !.f = SuccessStep(hd, s.f)]
      [] OTHER              -> s

RECURSIVE Run(_, _)
Run(hd, s) ==
    IF s.f.pc \in {"idle", "done"} THEN s
    ELSE CHOOSE r \in {Run(hd, t) : t \in {Step(hd, s)}} : TRUE

(***************************************************************************)
(* The requests sent.                                                      *)
(***************************************************************************)
\* the bytes a generated credentials token is made of: "O", "j", "o"
\* (alphabet) and "=" (padding)
TokChars == {79, 106, 111, PadChar}

RECURSIVE SeqsUpTo(_, _)
SeqsUpTo(S, n) ==
    IF n = 0 THEN {<<>>}
    ELSE LET shorter == SeqsUpTo(S, n - 1)
         IN  shorter \cup {Append(t, c) : t \in shorter, c \in S}

Tokens == SeqsUpTo(TokChars, MaxTokLen)

\* what stands before the token: "", "Basic " and "basic "
Prefixes == {<<>>, BasicStr \o <<SP>>, LowerBasicStr \o <<SP>>}

\* "jjoj", which decodes to the three bytes 142 ":" "#"
CredTok == <<106, 106, 111, 106>>

\* headers with other spacing than the one space after the scheme: a space
\* before or after, two spaces, a tab, and "\n" or "\r" before, within and
\* after the token
SpacingHeaders ==
    {<<SP>> \o BasicStr \o <<SP>> \o CredTok,
     BasicStr \o <<SP>> \o CredTok \o <<SP>>,
     BasicStr \o <<SP, SP>> \o CredTok,
     BasicStr \o <<TAB>> \o CredTok,
     BasicStr \o <<SP, LF>> \o CredTok,
     BasicStr \o <<SP>> \o CredTok \o <<CR, LF>>,
     BasicStr \o <<SP, 106, 106, LF, 111, 106>>,
     BasicStr \o <<SP, 106, 106, 111, CR, LF, 61>>,
     BasicStr \o <<SP, LF>>}

Headers ==
    TestHeaders \cup SpacingHeaders \cup {p \o t : p \in Prefixes, t \in Tokens}

\* the requests the goroutines send concurrently
ConcHeaders ==
    TestHeaders \cup {BasicStr \o <<SP, 79, 106, 106, 106>>}

Realms == {TestRealm, QuoteRealm}

(***************************************************************************)
(* Initial state: Basic(realm, onSuccess, authFunc) was called, no request *)
(* was sent, the test's user and pass are "".                              *)
(***************************************************************************)
Init ==
    /\ \E realm \in Realms : h = Basic(realm, "onSuccess", "authFunc")
    /\ fr = [p \in Procs |-> IdleFrame]
    /\ user = <<>>
    /\ pass = <<>>

(***************************************************************************)
(* The test loop: requests sent one after the other by one goroutine.      *)
(***************************************************************************)
\* a new request with some header a, the predicate set to return !f
NewRequest ==
    /\ fr[Main].pc = "idle"
    /\ \E a \in Headers, f \in BOOLEAN :
           fr' = [fr EXCEPT ![Main] = NewFrame(a, f, <<>>)]
    /\ UNCHANGED <<h, user, pass>>

\* handler.ServeHTTP(w, req), from the call to its return
ServeHTTP ==
    /\ fr[Main].pc = "ready"
    /\ \E s \in {Run(h, [f |-> fr[Main], user |-> user, pass |-> pass])} :
           /\ fr' = [fr EXCEPT ![Main] = s.f]
           /\ user' = s.user
           /\ pass' = s.pass
    /\ UNCHANGED h

\* the request is sent again unchanged, to a fresh recorder, the predicate
\* set to return !f
Resend ==
    /\ fr[Main].pc = "done"
    /\ \E f \in BOOLEAN :
           fr' = [fr EXCEPT ![Main] =
                     NewFrame(fr[Main].a, f,
                              <<[fail |-> fr[Main].fail,
                                 w |-> fr[Main].w,
                                 forwarded |-> fr[Main].successCalls # <<>>]>>)]
    /\ UNCHANGED <<h, user, pass>>

\* the iteration ends: the request and the recorder are dropped
EndIteration ==
    /\ fr[Main].pc = "done"
    /\ fr' = [fr EXCEPT ![Main] = IdleFrame]
    /\ UNCHANGED <<h, user, pass>>

Next ==
    \/ NewRequest
    \/ ServeHTTP
    \/ Resend
    \/ EndIteration

Spec == Init /\ [][Next]_vars

(***************************************************************************)
(* Concurrent use: every goroutine serves requests, ServeHTTP taken step   *)
(* by step.                                                                *)
(***************************************************************************)
Receive(p) ==
    /\ fr[p].pc = "idle"
    /\ \E a \in ConcHeaders, f \in BOOLEAN :
           fr' = [fr EXCEPT ![p] = NewFrame(a, f, <<>>)]
    /\ UNCHANGED <<h, user, pass>>

\* lines 43-69
Parse(p) ==
    /\ fr[p].pc = "ready"
    /\ fr' = [fr EXCEPT ![p] = ParseStep(h, fr[p])]
    /\ UNCHANGED <<h, user, pass>>

\* line 70
Auth(p) ==
    /\ fr[p].pc = "auth"
    /\ \E s \in {AuthStep(h, [f |-> fr[p], user |-> user, pass |-> pass])} :
           /\ fr' = [fr EXCEPT ![p] = s.f]
           /\ user' = s.user
           /\ pass' = s.pass
    /\ UNCHANGED h

\* mutant: the formatted challenge is kept in the handler for the next call
FailKeepsChallenge(p) ==
    /\ fr[p].pc = "fail"
    /\ fr' = [fr EXCEPT ![p] = fail(h, fr[p])]
    /\ h' = [h EXCEPT !.realm = Challenge(h)]
    /\ UNCHANGED <<user, pass>>

\* h.fail(w) and the return
Fail(p) ==
    /\ fr[p].pc = "fail"
    /\ fr' = [fr EXCEPT ![p] = fail(h, fr[p])]
    /\ UNCHANGED <<h, user, pass>>

\* line 76
Success(p) ==
    /\ fr[p].pc = "success"
    /\ fr' = [fr EXCEPT ![p] = SuccessStep(h, fr[p])]
    /\ UNCHANGED <<h, user, pass>>

\* the request and its recorder are dropped
Drop(p) ==
    /\ fr[p].pc = "done"
    /\ fr' = [fr EXCEPT ![p] = IdleFrame]
    /\ UNCHANGED <<h, user, pass>>

NextConc ==
    \E p \in Procs :
        \/ Receive(p)
        \/ Parse(p)
        \/ Auth(p)
        \/ Fail(p)
        \/ Success(p)
        \/ Drop(p)

SpecConc == Init /\ [][NextConc]_vars

(***************************************************************************)
(* What the claims speak of, read off a request and its frame.             *)
(***************************************************************************)
Count(s, c) == Cardinality({i \in 1..Len(s) : s[i] = c})

\* the index of the first c in s (s holds one)
IndexOf(s, c) == CHOOSE i \in 1..Len(s) : s[i] = c /\ \A j \in 1..(i - 1) : s[j] # c

Before(s, c) == SubSeq(s, 1, IndexOf(s, c) - 1)
After(s, c) == SubSeq(s, IndexOf(s, c) + 1, Len(s))

\* ASCII white space, as strings.Fields takes it
WhiteSpace == {TAB, LF, 11, 12, CR, SP}

\* the number of white-space-separated tokens of s
NumFields(s) ==
    Cardinality({i \in 1..Len(s) :
                    s[i] \notin WhiteSpace /\ (i = 1 \/ s[i - 1] \in WhiteSpace)})

\* a is two tokens around one space
TwoTokens(a) == Count(a, SP) = 1

\* a is two tokens and the second decodes: a carries a payload
HasPayload(a) == TwoTokens(a) /\ ~DecodeString(After(a, SP)).err

Payload(a) == DecodeString(After(a, SP)).bytes

\* a passes every parsing step: scheme "Basic", a payload, one ":" in it
WellFormed(a) ==
    /\ HasPayload(a)
    /\ Before(a, SP) = BasicStr
    /\ Count(Payload(a), COLON) = 1

Done(f) == f.pc = "done"

\* the downstream handler was invoked
Forwarded(f) == f.successCalls # <<>>

\* anything of the challenge was written
ChallengeTouched(f) ==
    \/ \E i \in 1..Len(f.w.HeaderMap) : f.w.HeaderMap[i][1] = "WWW-Authenticate"
    \/ f.w.Code = StatusUnauthorized

\* the challenge was written: one header added and the status 401
ChallengeWritten(f) ==
    /\ Len(f.w.HeaderMap) = 1
    /\ f.w.HeaderMap[1][1] = "WWW-Authenticate"
    /\ f.w.wroteHeader
    /\ f.w.Code = StatusUnauthorized

\* Basic realm="<realm>"
ExpectedChallenge(realm) ==
    <<66, 97, 115, 105, 99, 32, 114, 101, 97, 108, 109, 61, 34>> \o realm \o <<34>>

(***************************************************************************)
(* C1.  For every request handled by ServeHTTP exactly one of two outcomes *)
(* occurs: the challenge is written (WWW-Authenticate added and status 401 *)
(* written) or the downstream handler is invoked with the request; never   *)
(* both and never neither.                                                 *)
(***************************************************************************)
C1ExactlyOneOutcome ==
    \A p \in Procs :
        LET f == fr[p]
        IN  /\ ~(ChallengeTouched(f) /\ Forwarded(f))
            /\ Done(f) =>
                  \/ ChallengeWritten(f) /\ f.successCalls = <<>>
                  \/ f.successCalls = <<f.a>> /\ ~ChallengeTouched(f)

\* a request forwarded, sent again with the predicate refusing: challenged
C1Witness ==
    /\ Done(fr[Main])
    /\ fr[Main].prev # <<>>
    /\ fr[Main].prev[1].forwarded
    /\ ChallengeWritten(fr[Main])
    /\ fr[Main].successCalls = <<>>

(***************************************************************************)
(* C2.  The downstream handler is invoked if and only if the Authorization *)
(* header is non-empty, is two tokens around one space, the first token is *)
(* exactly "Basic", the second decodes as standard base64, the decoded     *)
(* text holds exactly one ":" (two segments) and the predicate returns     *)
(* true; in every other case the response is 401.                          *)
(***************************************************************************)
C2ForwardedIff ==
    LET f == fr[Main]
    IN  Done(f) =>
            /\ Forwarded(f) <=>
                  /\ f.a # <<>>
                  /\ Count(f.a, SP) = 1
                  /\ Before(f.a, SP) = BasicStr
                  /\ ~DecodeString(After(f.a, SP)).err
                  /\ Count(DecodeString(After(f.a, SP)).bytes, COLON) = 1
                  /\ ~f.fail
            /\ ~Forwarded(f) => f.w.Code = StatusUnauthorized

\* "Basic jjoj" with the predicate returning true is forwarded
C2Witness ==
    /\ Done(fr[Main])
    /\ fr[Main].a = BasicStr \o <<SP>> \o CredTok
    /\ Forwarded(fr[Main])
    /\ fr[Main].w.Body = TestGood

(***************************************************************************)
(* C3.  On every rejection the response has status 401, its                *)
(* WWW-Authenticate header has exactly the value Basic realm="<realm>"     *)
(* with the realm given at construction, verbatim and unescaped, and no    *)
(* response body is written.                                               *)
(***************************************************************************)
C3RejectionIsChallenge ==
    LET f == fr[Main]
    IN  (Done(f) /\ ~Forwarded(f)) =>
            /\ f.w.Code = StatusUnauthorized
            /\ h.realm \in Realms
            /\ f.w.HeaderMap = << <<"WWW-Authenticate", ExpectedChallenge(h.realm)>> >>
            /\ HeaderGet(f.w, "WWW-Authenticate") = ExpectedChallenge(h.realm)
            /\ f.w.Body = <<>>

\* well-formed credentials refused by the predicate, the realm holding a quote
C3Witness ==
    /\ Done(fr[Main])
    /\ ~Forwarded(fr[Main])
    /\ WellFormed(fr[Main].a)
    /\ h.realm = QuoteRealm
    /\ HeaderGet(fr[Main].w, "WWW-Authenticate") =
           <<66, 97, 115, 105, 99, 32, 114, 101, 97, 108, 109, 61, 34, 97, 34, 98, 34>>

(***************************************************************************)
(* C4.  No memory between requests: a request sent again unchanged gets    *)
(* the same response and outcome whenever the predicate answers the same;  *)
(* a request forwarded and then sent again with the predicate returning    *)
(* false yields 401; and sent again with the predicate returning true it   *)
(* is forwarded again.                                                     *)
(***************************************************************************)
C4NoMemory ==
    LET f == fr[Main]
    IN  (Done(f) /\ f.prev # <<>>) =>
            LET pv == f.prev[1]
            IN  /\ pv.fail = f.fail =>
                      (pv.forwarded = Forwarded(f) /\ pv.w = f.w)
                /\ (pv.forwarded /\ f.fail) =>
                      (f.w.Code = StatusUnauthorized /\ ~Forwarded(f))
                /\ (pv.forwarded /\ ~f.fail) => Forwarded(f)

\* forwarded first, refused by the predicate the second time
C4Witness ==
    /\ Done(fr[Main])
    /\ fr[Main].a = HdrNormal
    /\ fr[Main].prev # <<>>
    /\ fr[Main].prev[1].forwarded
    /\ fr[Main].fail
    /\ fr[Main].w.Code = StatusUnauthorized

(***************************************************************************)
(* C5.  For every request with scheme "Basic" whose decoded payload has    *)
(* exactly two ":"-separated segments the predicate is invoked with        *)
(* exactly (first segment, second segment), untrimmed and untransformed,   *)
(* empty segments and "/" included; "test:nothing/123" gives               *)
(* ("test", "nothing/123").                                                *)
(***************************************************************************)
C5PredicateArguments ==
    LET f == fr[Main]
    IN  /\ (Done(f) /\ WellFormed(f.a)) =>
              /\ f.authCalls = << <<Before(Payload(f.a), COLON), After(Payload(f.a), COLON)>> >>
              /\ user = Before(Payload(f.a), COLON)
              /\ pass = After(Payload(f.a), COLON)
        /\ (Done(f) /\ f.a = HdrNormal) => (user = TestUser /\ pass = TestPass)

\* the test's "Normal test" row
C5Witness ==
    /\ Done(fr[Main])
    /\ fr[Main].a = HdrNormal
    /\ fr[Main].authCalls = << <<TestUser, TestPass>> >>

(***************************************************************************)
(* C6.  For every request whose decoded payload does not split on ":" into *)
(* exactly two segments (no colon, or two or more) the status is 401 and   *)
(* the downstream handler is not invoked; so "test:nothing/123:abs".       *)
(***************************************************************************)
C6ColonCount ==
    LET f == fr[Main]
    IN  /\ (Done(f) /\ HasPayload(f.a) /\ Count(Payload(f.a), COLON) # 1) =>
              (f.w.Code = StatusUnauthorized /\ ~Forwarded(f))
        /\ (Done(f) /\ f.a = HdrThreeFields) =>
              (f.w.Code = StatusUnauthorized /\ ~Forwarded(f))

\* the test's row with a ":" in the password, the predicate willing
C6Witness ==
    /\ Done(fr[Main])
    /\ fr[Main].a = HdrThreeFields
    /\ ~fr[Main].fail
    /\ Count(Payload(fr[Main].a), COLON) = 2
    /\ fr[Main].w.Code = StatusUnauthorized

(***************************************************************************)
(* C7, as claimed.  For all requests whose Authorization header holds a    *)
(* number of white-space-separated tokens different from 2 the status is   *)
(* 401.                                                                    *)
(***************************************************************************)
C7WhiteSpaceTokens ==
    LET f == fr[Main]
    IN  (Done(f) /\ NumFields(f.a) # 2) => f.w.Code = StatusUnauthorized

(***************************************************************************)
(* C7, amended.  For all requests whose Authorization header is not two    *)
(* tokens around one space, and for all whose header holds no "\r" or "\n" *)
(* and a number of white-space-separated tokens different from 2, the      *)
(* status is 401 and the downstream handler is not invoked.                *)
(***************************************************************************)
C7SpaceTokens ==
    LET f == fr[Main]
        noNewline == Count(f.a, LF) = 0 /\ Count(f.a, CR) = 0
    IN  (Done(f) /\ (Count(f.a, SP) # 1 \/ (noNewline /\ NumFields(f.a) # 2))) =>
            (f.w.Code = StatusUnauthorized /\ ~Forwarded(f))

\* the test's row "Basic askd asdf", the predicate willing
C7Witness ==
    /\ Done(fr[Main])
    /\ fr[Main].a = HdrThreeParts
    /\ ~fr[Main].fail
    /\ fr[Main].w.Code = StatusUnauthorized

(***************************************************************************)
(* C8.  The response does not tell why authentication failed: what the     *)
(* middleware writes (status, headers, body) is the same for any two       *)
(* rejected requests to the instance.                                      *)
(***************************************************************************)
C8SameRejection ==
    \A p, q \in Procs :
        (Done(fr[p]) /\ Done(fr[q]) /\ ~Forwarded(fr[p]) /\ ~Forwarded(fr[q])) =>
            fr[p].w = fr[q].w

\* one request rejected for its missing header, one refused by the predicate
C8Witness ==
    \E p, q \in Procs :
        /\ Done(fr[p]) /\ fr[p].line = 45
        /\ Done(fr[q]) /\ fr[q].line = 71

(***************************************************************************)
(* C9.  The configuration is written only at construction: no step of any  *)
(* interleaving of ServeHTTP invocations changes it, it is what Basic      *)
(* built, and every concurrent request gets the outcome it gets when run   *)
(* alone with the same header and predicate result.                        *)
(***************************************************************************)
Outcome(f) == [w |-> f.w, authCalls |-> f.authCalls, successCalls |-> f.successCalls]

Alone(hd, f) ==
    Run(hd, [f |-> NewFrame(f.a, f.fail, <<>>), user |-> <<>>, pass |-> <<>>]).f

C9ConfigurationImmutable ==
    /\ [][h' = h]_vars
    /\ [](\E realm \in Realms : h = Basic(realm, "onSuccess", "authFunc"))
    /\ [](\A p \in Procs :
             Done(fr[p]) =>
                 Outcome(fr[p]) = Outcome(Alone(h, fr[p])))

\* two invocations under way at once: one past the predicate, one rejected
C9Witness ==
    \E p, q \in Procs :
        /\ fr[p].pc = "success"
        /\ fr[q].pc = "fail"
        /\ fr[q].line = 71
        /\ user = fr[p].parts[1]

(***************************************************************************)
(* C10.  The predicate is invoked at most once per request and only after  *)
(* the header has passed every parsing step: a request rejected for an     *)
(* empty header, a header not of two tokens, another scheme, invalid       *)
(* base64 or a payload not of two segments never reaches the predicate,    *)
(* whose recorded arguments stay those from before the request.            *)
(***************************************************************************)
C10PredicateOnlyAfterParsing ==
    /\ [](\A p \in Procs :
             /\ Len(fr[p].authCalls) <= 1
             /\ (fr[p].pc # "idle" /\ ~WellFormed(fr[p].a)) => fr[p].authCalls = <<>>)
    /\ [][(fr[Main].pc = "ready" /\ ~WellFormed(fr[Main].a))
              => (user' = user /\ pass' = pass)]_vars

\* after the "Normal test" row, a malformed request leaves user and pass
C10Witness ==
    /\ Done(fr[Main])
    /\ ~WellFormed(fr[Main].a)
    /\ fr[Main].a = HdrThreeFields
    /\ fr[Main].authCalls = <<>>
    /\ user = TestUser
    /\ pass = TestPass

=============================================================================
